---- MODULE Spec2Model ----
(***************************************************************************)
(* A model of the receipt processor of src/main.go: the scorer             *)
(* (calculatePoints), the store (Storage: a map guarded by a               *)
(* sync.RWMutex) and the two HTTP handlers (processReceipt, getPoints).    *)
(*                                                                         *)
(* Text is modelled as a sequence of one-character strings, so that the    *)
(* parsers the scorer calls (strconv.ParseFloat, time.Parse,               *)
(* strings.TrimSpace, the alphanumeric regexp) are computed character by   *)
(* character.  All characters of the model are ASCII, so Go's len (a byte  *)
(* count) is the sequence's length.                                        *)
(***************************************************************************)
EXTENDS Integers, Sequences, FiniteSets, TLC

VARIABLES
    receipts,   \* store.receipts: map[string]int, as a function id -> points
    wowner,     \* store.io: the writer that has called Lock and not yet Unlock
    readers,    \* store.io: the handlers holding the read lock
    pc,         \* each handler goroutine's position ("new": not yet started)
    req,        \* each handler's request: the payload or the path id
    local,      \* each handler's local variables (receipt, points, id, exists)
    resp,       \* each handler's last HTTP response
    issued,     \* the identifiers uuid.New has produced so far
    returned,   \* history: the put responses already sent, with their receipts
    known,      \* history: per get, the put responses for its id sent before it started
    acquired,   \* history: per handler, the times it has acquired store.io
    started,    \* number of requests the server has accepted
    receipt,    \* scorer run: the Receipt handed to calculatePoints
    added,      \* scorer run: the amounts calculatePoints added to points, in order
    points,     \* scorer run: the local points of calculatePoints
    scored      \* scorer run: calculatePoints has returned

vars == <<receipts, wowner, readers, pc, req, local, resp, issued, returned,
          known, acquired, started, receipt, added, points, scored>>

storeVars == <<receipts, wowner, readers, pc, req, local, resp, issued,
               returned, known, acquired, started>>

scorerVars == <<receipt, added, points, scored>>

-----------------------------------------------------------------------------
(* Bounds of the model.                                                    *)

\* the requests of a run, each served by its own goroutine
MaxRequests == 2

\* the longest item list of a scored receipt
MaxItems == 2

\* net/http serves each request on a goroutine of its own; the goroutines
\* are numbered in the order the requests are accepted
Handlers == 1..MaxRequests

NoHandler == 0

\* the identifiers of the model: as many as a run has requests, so that
\* uuid.New always has an unused one
Ids == 1..MaxRequests

NoId == 0

NoRequest == [op |-> "none", id |-> NoId]

NoLocal == [points |-> 0, id |-> NoId, exists |-> FALSE]

NoResponse == [status |-> 0, kind |-> "none", id |-> NoId, points |-> 0]

-----------------------------------------------------------------------------
(* Characters and text.                                                    *)

Digits == {"0", "1", "2", "3", "4", "5", "6", "7", "8", "9"}

Letters ==
    {"a", "b", "c", "d", "e", "f", "g", "h", "i", "j", "k", "l", "m",
     "n", "o", "p", "q", "r", "s", "t", "u", "v", "w", "x", "y", "z",
     "A", "B", "C", "D", "E", "F", "G", "H", "I", "J", "K", "L", "M",
     "N", "O", "P", "Q", "R", "S", "T", "U", "V", "W", "X", "Y", "Z"}

\* the class [a-zA-Z0-9] of the regexp
Alphanumeric == Letters \cup Digits

\* the ASCII white space unicode.IsSpace accepts
WhiteSpace == {" ", "\t", "\n", "\r"}

DigitVal(c) ==
    CASE c = "0" -> 0 [] c = "1" -> 1 [] c = "2" -> 2 [] c = "3" -> 3
      [] c = "4" -> 4 [] c = "5" -> 5 [] c = "6" -> 6 [] c = "7" -> 7
      [] c = "8" -> 8 [] c = "9" -> 9

AllDigits(s) == \A i \in 1..Len(s) : s[i] \in Digits

RECURSIVE DecValTo(_, _)
\* the number the first n digits of s write
DecValTo(s, n) ==
    IF n = 0 THEN 0 ELSE 10 * DecValTo(s, n - 1) + DigitVal(s[n])

\* the number a sequence of decimal digits writes
DecVal(s) == DecValTo(s, Len(s))

RECURSIVE Pow10(_)
Pow10(n) == IF n = 0 THEN 1 ELSE 10 * Pow10(n - 1)

\* ceil(a / b) for b > 0 (\div rounds towards minus infinity)
CeilDiv(a, b) == -((-a) \div b)

-----------------------------------------------------------------------------
(* strconv.ParseFloat(s, 64), for the decimal forms                        *)
(*     [+-]? digits* ( "." digits* )?     with at least one digit.         *)
(* Any other text of the model's alphabet is a syntax error, for which     *)
(* ParseFloat returns 0 and an error (the callers drop the error).  The    *)
(* value is kept exactly as mant / 10^frac.  For amounts with at most two  *)
(* fraction digits and of moderate size the float64 tests of               *)
(* calculatePoints agree with exact arithmetic: x == Floor(x) and          *)
(* Mod(x*100, 25) == 0 hold of the float64 nearest to the decimal exactly  *)
(* when they hold of the decimal, and Ceil(x * 0.2) is the exact ceiling.  *)

Unsigned(s) == IF s # <<>> /\ s[1] \in {"+", "-"} THEN Tail(s) ELSE s

DotAt(s) ==
    IF \E i \in 1..Len(s) : s[i] = "."
    THEN CHOOSE i \in 1..Len(s) : s[i] = "." /\ \A j \in 1..(i - 1) : s[j] # "."
    ELSE Len(s) + 1

IntPart(s) == SubSeq(Unsigned(s), 1, DotAt(Unsigned(s)) - 1)

FracPart(s) == SubSeq(Unsigned(s), DotAt(Unsigned(s)) + 1, Len(Unsigned(s)))

FloatSyntaxOk(s) ==
    /\ AllDigits(IntPart(s))
    /\ AllDigits(FracPart(s))
    /\ Len(IntPart(s)) + Len(FracPart(s)) > 0

ParseFloat(s) ==
    IF FloatSyntaxOk(s)
    THEN [mant |-> (IF s[1] = "-" THEN -1 ELSE 1)
                     * (DecVal(IntPart(s)) * Pow10(Len(FracPart(s)))
                        + DecVal(FracPart(s))),
          frac |-> Len(FracPart(s)),
          err  |-> FALSE]
    ELSE [mant |-> 0, frac |-> 0, err |-> TRUE]

\* total == math.Floor(total)
IsWhole(x) == x.mant % Pow10(x.frac) = 0

\* the test without the scaling by 100: math.Mod(total, 25) == 0
IsQuarterMultipleUnscaled(x) == x.mant % (25 * Pow10(x.frac)) = 0

\* math.Mod(total*100, 25) == 0
IsQuarterMultiple(x) == (x.mant * 100) % (25 * Pow10(x.frac)) = 0

\* int(math.Ceil(price * 0.2))
CeilFifth(x) == CeilDiv(x.mant, 5 * Pow10(x.frac))

-----------------------------------------------------------------------------
(* strings.TrimSpace                                                       *)

RECURSIVE TrimStart(_, _)
\* the first index from i on that holds no white space
TrimStart(s, i) ==
    IF i <= Len(s) /\ s[i] \in WhiteSpace THEN TrimStart(s, i + 1) ELSE i

RECURSIVE TrimStop(_, _, _)
\* the last index from j down to i that holds no white space
TrimStop(s, i, j) ==
    IF j >= i /\ s[j] \in WhiteSpace THEN TrimStop(s, i, j - 1) ELSE j

TrimSpace(s) == SubSeq(s, TrimStart(s, 1), TrimStop(s, TrimStart(s, 1), Len(s)))

-----------------------------------------------------------------------------
(* time.Parse.  A time.Time is modelled by the fields the scorer reads:    *)
(* year, day of the month and minute of the day.  On any error time.Parse  *)
(* returns the zero Time, January 1 of year 1 at 00:00.  A layout without  *)
(* a year ("15:04") yields year 0.                                         *)

ZeroTime == [year |-> 1, day |-> 1, minute |-> 0]

IsLeap(y) == y % 4 = 0 /\ (y % 100 # 0 \/ y % 400 = 0)

DaysIn(m, y) ==
    IF m = 2 THEN (IF IsLeap(y) THEN 29 ELSE 28)
    ELSE IF m \in {4, 6, 9, 11} THEN 30 ELSE 31

\* a parser that takes the digits as written, without the range checks
ParseDateUnchecked(s) ==
    IF /\ Len(s) = 10
       /\ AllDigits(SubSeq(s, 1, 4)) /\ s[5] = "-"
       /\ AllDigits(SubSeq(s, 6, 7)) /\ s[8] = "-"
       /\ AllDigits(SubSeq(s, 9, 10))
    THEN [year |-> DecVal(SubSeq(s, 1, 4)),
          day |-> DecVal(SubSeq(s, 9, 10)),
          minute |-> 0]
    ELSE ZeroTime

\* time.Parse("2006-01-02", s)
ParseDate(s) ==
    IF /\ Len(s) = 10
       /\ AllDigits(SubSeq(s, 1, 4)) /\ s[5] = "-"
       /\ AllDigits(SubSeq(s, 6, 7)) /\ s[8] = "-"
       /\ AllDigits(SubSeq(s, 9, 10))
       /\ DecVal(SubSeq(s, 6, 7)) \in 1..12
       /\ DecVal(SubSeq(s, 9, 10)) \in
              1..DaysIn(DecVal(SubSeq(s, 6, 7)), DecVal(SubSeq(s, 1, 4)))
    THEN [year |-> DecVal(SubSeq(s, 1, 4)),
          day |-> DecVal(SubSeq(s, 9, 10)),
          minute |-> 0]
    ELSE ZeroTime

\* number of leading digits of s that the hour field takes: one or two
HourLen(s) ==
    IF Len(s) >= 2 /\ s[1] \in Digits /\ s[2] \in Digits THEN 2
    ELSE IF Len(s) >= 1 /\ s[1] \in Digits THEN 1 ELSE 0

\* time.Parse("15:04", s)
ParseClock(s) ==
    LET h == HourLen(s)
        rest == SubSeq(s, h + 1, Len(s))
    IN  IF /\ h > 0
           /\ DecVal(SubSeq(s, 1, h)) < 24
           /\ Len(rest) = 3
           /\ rest[1] = ":"
           /\ AllDigits(SubSeq(rest, 2, 3))
           /\ DecVal(SubSeq(rest, 2, 3)) < 60
        THEN [year |-> 0, day |-> 1,
              minute |-> 60 * DecVal(SubSeq(s, 1, h)) + DecVal(SubSeq(rest, 2, 3))]
        ELSE ZeroTime

\* a comparison that also accepts equal times
AfterOrEqual(t, u) == t.year > u.year \/ (t.year = u.year /\ t.minute >= u.minute)

\* Time.After and Time.Before on the fields that differ in the model
After(t, u) == t.year > u.year \/ (t.year = u.year /\ t.minute > u.minute)

Before(t, u) == After(u, t)

-----------------------------------------------------------------------------
(* calculatePoints: the seven rules, each as the amount the code adds to   *)
(* points, and their sum.                                                  *)

RECURSIVE CountAlnumTo(_, _)
\* the matches of [a-zA-Z0-9] among the first n characters of s
CountAlnumTo(s, n) ==
    IF n = 0 THEN 0
    ELSE CountAlnumTo(s, n - 1) + (IF s[n] \in Alphanumeric THEN 1 ELSE 0)

\* 1: len(alphanumeric.FindAllString(receipt.Retailer, -1))
CountAlnum(s) == CountAlnumTo(s, Len(s))

RetailerPoints(r) == CountAlnum(r.retailer)

\* a rule 2 that gives nothing for a total that does not parse
RoundDollarPointsStrict(r) ==
    IF ~ParseFloat(r.total).err /\ IsWhole(ParseFloat(r.total)) THEN 50 ELSE 0

\* 2: 50 points if the total is a round dollar amount
RoundDollarPoints(r) == IF IsWhole(ParseFloat(r.total)) THEN 50 ELSE 0

\* 3: 25 points if the total is a multiple of 0.25
QuarterPoints(r) == IF IsQuarterMultiple(ParseFloat(r.total)) THEN 25 ELSE 0

\* 4: 5 points for every two items
PairPoints(r) == (Len(r.items) \div 2) * 5

\* the condition with empty descriptions left out
DescrQualifiesNonEmpty(item) ==
    /\ Len(TrimSpace(item.shortDescription)) > 0
    /\ Len(TrimSpace(item.shortDescription)) % 3 = 0

\* the condition of line 124 on one item
DescrQualifies(item) == Len(TrimSpace(item.shortDescription)) % 3 = 0

\* 5: what the loop body adds for one item
ItemPoints(item) ==
    IF DescrQualifies(item) THEN CeilFifth(ParseFloat(item.price)) ELSE 0

RECURSIVE ItemPointsTo(_, _)
\* 5: what the loop has added after the first n items
ItemPointsTo(items, n) ==
    IF n = 0 THEN 0 ELSE ItemPointsTo(items, n - 1) + ItemPoints(items[n])

DescrPoints(r) == ItemPointsTo(r.items, Len(r.items))

\* 6: 6 points if the day in the purchase date is odd
OddDayPoints(r) == IF ParseDate(r.purchaseDate).day % 2 = 1 THEN 6 ELSE 0

targetStart == ParseClock(<<"1", "4", ":", "0", "0">>)

targetEnd == ParseClock(<<"1", "6", ":", "0", "0">>)

\* 7: 10 points if time is between 2:00pm and 4:00pm
AfternoonPoints(r) ==
    IF /\ After(ParseClock(r.purchaseTime), targetStart)
       /\ Before(ParseClock(r.purchaseTime), targetEnd)
    THEN 10 ELSE 0

\* a scorer whose rule 3 is the else branch of rule 2
calculatePointsElseIf(r) ==
    0 + RetailerPoints(r)
      + (IF RoundDollarPoints(r) > 0 THEN RoundDollarPoints(r) ELSE QuarterPoints(r))
      + PairPoints(r) + DescrPoints(r) + OddDayPoints(r) + AfternoonPoints(r)

\* points := 0, then each rule's points += ..., then return points
calculatePoints(r) ==
    0 + RetailerPoints(r) + RoundDollarPoints(r) + QuarterPoints(r)
      + PairPoints(r) + DescrPoints(r) + OddDayPoints(r) + AfternoonPoints(r)

\* the amounts calculatePoints adds to points, in the order of the code:
\* rules 1 to 4, one amount for each item, rules 6 and 7
Additions(r) ==
    <<RetailerPoints(r), RoundDollarPoints(r), QuarterPoints(r), PairPoints(r)>>
        \o [i \in 1..Len(r.items) |-> ItemPoints(r.items[i])]
        \o <<OddDayPoints(r), AfternoonPoints(r)>>

-----------------------------------------------------------------------------
(* The receipts of the model.                                              *)

Retailers == { <<"T", "a", "r", "g", "e", "t">>, <<"M", "&", "M", " ", "7">> }

Totals ==
    { <<"1", "0", "0", ".", "0", "0">>, <<"1", "0", "0", ".", "1", "0">>,
      <<"1", "0", "0", ".", "2", "5">>, <<"1", "0", "0", ".", "5", "0">>,
      <<"3", "5", ".", "3", "5">>, <<"a", "b", "c">> }

Dates ==
    { <<"2", "0", "2", "2", "-", "0", "1", "-", "0", "1">>,
      <<"2", "0", "2", "2", "-", "0", "1", "-", "0", "2">>,
      <<"2", "0", "2", "2", "-", "0", "2", "-", "3", "0">>,
      <<"2", "0", "2", "2", "-", "1", "-", "0", "2">> }

Clocks ==
    { <<"1", "3", ":", "0", "1">>, <<"1", "4", ":", "0", "0">>,
      <<"1", "4", ":", "0", "1">>, <<"1", "6", ":", "0", "0">>, <<"x">> }

Descriptions == { <<>>, <<" ", "\t">>, <<" ", "a", "b", "c", " ">>, <<"a", "b">> }

Prices ==
    { <<"1", "2", ".", "2", "5">>, <<"-", "1", "0", "0", ".", "0", "0">>, <<"x">> }

Items == [shortDescription : Descriptions, price : Prices]

ItemLists == UNION { [1..n -> Items] : n \in 0..MaxItems }

Receipts ==
    [retailer : Retailers, purchaseDate : Dates, purchaseTime : Clocks,
     items : ItemLists, total : Totals]

-----------------------------------------------------------------------------
(* The scorer alone: calculatePoints applied to one receipt.               *)

\* the handlers' state before any request (var store, line 45)
StoreInit ==
    /\ receipts = <<>>
    /\ wowner = NoHandler
    /\ readers = {}
    /\ pc = [h \in Handlers |-> "new"]
    /\ req = [h \in Handlers |-> NoRequest]
    /\ local = [h \in Handlers |-> NoLocal]
    /\ resp = [h \in Handlers |-> NoResponse]
    /\ issued = {}
    /\ returned = <<>>
    /\ known = [h \in Handlers |-> {}]
    /\ acquired = [h \in Handlers |-> 0]
    /\ started = 0

ScoreInit ==
    /\ StoreInit
    /\ receipt \in Receipts
    /\ added = <<>>
    /\ points = 0
    /\ scored = FALSE

Score ==
    /\ ~scored
    /\ added' = Additions(receipt)
    /\ points' = calculatePoints(receipt)
    /\ scored' = TRUE
    /\ UNCHANGED <<receipt, storeVars>>

ScoreNext == Score

ScoreSpec == ScoreInit /\ [][ScoreNext]_vars

-----------------------------------------------------------------------------
(* The request bodies of the model: a payload json.Decoder cannot decode   *)
(* into a Receipt, and two receipts it can.                                *)

\* var receipt Receipt: the zero value, which a failed Decode leaves behind
ZeroReceipt ==
    [retailer |-> <<>>, purchaseDate |-> <<>>, purchaseTime |-> <<>>,
     items |-> <<>>, total |-> <<>>]

Malformed == [ok |-> FALSE, receipt |-> ZeroReceipt]

ReceiptA ==
    [retailer |-> <<"T", "a", "r", "g", "e", "t">>,
     purchaseDate |-> <<"2", "0", "2", "2", "-", "0", "1", "-", "0", "1">>,
     purchaseTime |-> <<"1", "3", ":", "0", "1">>,
     items |-> << [shortDescription |-> <<" ", "a", "b", "c", " ">>,
                   price |-> <<"1", "2", ".", "2", "5">>],
                  [shortDescription |-> <<"a", "b">>,
                   price |-> <<"1", "2", ".", "2", "5">>] >>,
     total |-> <<"3", "5", ".", "3", "5">>]

ReceiptB ==
    [retailer |-> <<"M", "&", "M", " ", "7">>,
     purchaseDate |-> <<"2", "0", "2", "2", "-", "0", "1", "-", "0", "2">>,
     purchaseTime |-> <<"1", "4", ":", "0", "1">>,
     items |-> <<>>,
     total |-> <<"1", "0", "0", ".", "0", "0">>]

Payloads == {Malformed} \cup {[ok |-> TRUE, receipt |-> r] : r \in {ReceiptA, ReceiptB}}

\* a handler that goes on after a failed Decode
DecodeNeverFails(payload) == FALSE

\* json.NewDecoder(router.Body).Decode(&receipt) returns an error
DecodeFails(payload) == ~payload.ok

\* a generator that can repeat an identifier
UuidNewRepeating(given) == Ids

\* uuid.New().String(): a random version-4 UUID, modelled as any identifier
\* not produced before
UuidNew(given) == Ids \ given

\* a write that is lost
MapAssignLost(m, id, p) == m

\* a write that replaces the map
MapAssignClobber(m, id, p) == [k \in {id} |-> p]

\* a write whose value grows with the entries already stored
MapAssignAccumulating(m, id, p) ==
    [k \in DOMAIN m \cup {id} |->
        IF k = id THEN p + Cardinality(DOMAIN m) ELSE m[k]]

\* store.receipts[id] = points
MapAssign(m, id, p) == [k \in DOMAIN m \cup {id} |-> IF k = id THEN p ELSE m[k]]

\* points, exists := store.receipts[id]
MapLookup(m, id) ==
    IF id \in DOMAIN m THEN [points |-> m[id], exists |-> TRUE]
    ELSE [points |-> 0, exists |-> FALSE]

-----------------------------------------------------------------------------
(* processReceipt                                                          *)

\* line 52: the router dispatches a POST /receipts/process
StartPut(h, payload) ==
    /\ pc[h] = "new"
    /\ h = started + 1
    /\ started' = started + 1
    /\ pc' = [pc EXCEPT ![h] = "decode"]
    /\ req' = [req EXCEPT ![h] = [op |-> "put", id |-> NoId, payload |-> payload]]
    /\ UNCHANGED <<receipts, wowner, readers, local, resp, issued, returned,
                   known, acquired, scorerVars>>

\* lines 62-65: the payload does not decode
PutReject(h) ==
    /\ pc[h] = "decode"
    /\ DecodeFails(req[h].payload)
    /\ resp' = [resp EXCEPT ![h] =
                  [status |-> 400, kind |-> "error", id |-> NoId, points |-> 0]]
    /\ pc' = [pc EXCEPT ![h] = "done"]
    /\ UNCHANGED <<receipts, wowner, readers, req, local, issued, returned,
                   known, acquired, started, scorerVars>>

\* lines 62, 67-68: decode, score, draw the identifier
PutScore(h) ==
    /\ pc[h] = "decode"
    /\ ~DecodeFails(req[h].payload)
    /\ \E id \in UuidNew(issued) :
          /\ local' = [local EXCEPT ![h] =
                         [points |-> calculatePoints(req[h].payload.receipt),
                          id |-> id, exists |-> FALSE]]
          /\ issued' = issued \cup {id}
    /\ pc' = [pc EXCEPT ![h] = "lock"]
    /\ UNCHANGED <<receipts, wowner, readers, req, resp, returned, known,
                   acquired, started, scorerVars>>

\* sync.RWMutex: Lock passes the writers' mutex when no other writer has it
CanLock(w) == w = NoHandler

\* sync.RWMutex: Lock returns when the active readers have left
ReadersGone(r) == r = {}

\* a reader that does not wait for the writer
CanRLockAlways(w) == TRUE

\* sync.RWMutex: RLock is granted when no writer holds or awaits the lock
CanRLock(w) == w = NoHandler

\* line 70, store.io.Lock(): the writer excludes other writers and
\* announces itself, which holds off readers that arrive from now on
PutLock(h) ==
    /\ pc[h] = "lock"
    /\ CanLock(wowner)
    /\ wowner' = h
    /\ pc' = [pc EXCEPT ![h] = "lockwait"]
    /\ UNCHANGED <<receipts, readers, req, local, resp, issued, returned,
                   known, acquired, started, scorerVars>>

\* line 70, store.io.Lock() returns once the active readers have left
PutLocked(h) ==
    /\ pc[h] = "lockwait"
    /\ ReadersGone(readers)
    /\ acquired' = [acquired EXCEPT ![h] = @ + 1]
    /\ pc' = [pc EXCEPT ![h] = "write"]
    /\ UNCHANGED <<receipts, wowner, readers, req, local, resp, issued,
                   returned, known, started, scorerVars>>

\* line 71
PutWrite(h) ==
    /\ pc[h] = "write"
    /\ receipts' = MapAssign(receipts, local[h].id, local[h].points)
    /\ pc' = [pc EXCEPT ![h] = "unlock"]
    /\ UNCHANGED <<wowner, readers, req, local, resp, issued, returned, known,
                   acquired, started, scorerVars>>

\* a writer that returns without Unlock
StillLocked(w, h) == w

\* store.io.Unlock(): the lock's state after the writer h has released it
Unlocked(w, h) == IF w = h THEN NoHandler ELSE w

\* line 72
PutUnlock(h) ==
    /\ pc[h] = "unlock"
    /\ wowner' = Unlocked(wowner, h)
    /\ pc' = [pc EXCEPT ![h] = "respond"]
    /\ UNCHANGED <<receipts, readers, req, local, resp, issued, returned,
                   known, acquired, started, scorerVars>>

\* lines 74-76
PutRespond(h) ==
    /\ pc[h] = "respond"
    /\ resp' = [resp EXCEPT ![h] =
                  [status |-> 200, kind |-> "id", id |-> local[h].id, points |-> 0]]
    /\ returned' = Append(returned, [id |-> local[h].id,
                                     receipt |-> req[h].payload.receipt])
    /\ pc' = [pc EXCEPT ![h] = "done"]
    /\ UNCHANGED <<receipts, wowner, readers, req, local, issued, known,
                   acquired, started, scorerVars>>

-----------------------------------------------------------------------------
(* getPoints                                                               *)

\* lines 53, 81-82: the router dispatches a GET /receipts/{id}/points
StartGet(h, id) ==
    /\ pc[h] = "new"
    /\ h = started + 1
    /\ started' = started + 1
    /\ pc' = [pc EXCEPT ![h] = "rlock"]
    /\ req' = [req EXCEPT ![h] = [op |-> "get", id |-> id]]
    /\ known' = [known EXCEPT ![h] =
                   {returned[i] : i \in {j \in DOMAIN returned : returned[j].id = id}}]
    /\ UNCHANGED <<receipts, wowner, readers, local, resp, issued, returned,
                   acquired, scorerVars>>

\* line 84, store.io.RLock(): granted when no writer holds or awaits the lock
GetRLock(h) ==
    /\ pc[h] = "rlock"
    /\ CanRLock(wowner)
    /\ readers' = readers \cup {h}
    /\ acquired' = [acquired EXCEPT ![h] = @ + 1]
    /\ pc' = [pc EXCEPT ![h] = "read"]
    /\ UNCHANGED <<receipts, wowner, req, local, resp, issued, returned, known,
                   started, scorerVars>>

\* a lookup that stores the zero value under a key it does not find
GetReadInserting(h) ==
    /\ pc[h] = "read"
    /\ local' = [local EXCEPT ![h] =
                   [points |-> MapLookup(receipts, req[h].id).points,
                    id |-> req[h].id,
                    exists |-> MapLookup(receipts, req[h].id).exists]]
    /\ receipts' = MapAssign(receipts, req[h].id, MapLookup(receipts, req[h].id).points)
    /\ pc' = [pc EXCEPT ![h] = "runlock"]
    /\ UNCHANGED <<wowner, readers, req, resp, issued, returned,
                   known, acquired, started, scorerVars>>

\* line 85
GetRead(h) ==
    /\ pc[h] = "read"
    /\ local' = [local EXCEPT ![h] =
                   [points |-> MapLookup(receipts, req[h].id).points,
                    id |-> req[h].id,
                    exists |-> MapLookup(receipts, req[h].id).exists]]
    /\ pc' = [pc EXCEPT ![h] = "runlock"]
    /\ UNCHANGED <<receipts, wowner, readers, req, resp, issued, returned,
                   known, acquired, started, scorerVars>>

\* line 86
GetRUnlock(h) ==
    /\ pc[h] = "runlock"
    /\ readers' = readers \ {h}
    /\ pc' = [pc EXCEPT ![h] = "reply"]
    /\ UNCHANGED <<receipts, wowner, req, local, resp, issued, returned, known,
                   acquired, started, scorerVars>>

\* a getPoints that does not test exists
PointsResponseUnchecked(l) ==
    [status |-> 200, kind |-> "points", id |-> NoId, points |-> l.points]

\* lines 88-95: the response getPoints writes
PointsResponse(l) ==
    IF ~l.exists
    THEN [status |-> 404, kind |-> "error", id |-> NoId, points |-> 0]
    ELSE [status |-> 200, kind |-> "points", id |-> NoId, points |-> l.points]

GetRespond(h) ==
    /\ pc[h] = "reply"
    /\ resp' = [resp EXCEPT ![h] = PointsResponse(local[h])]
    /\ pc' = [pc EXCEPT ![h] = "done"]
    /\ UNCHANGED <<receipts, wowner, readers, req, local, issued, returned,
                   known, acquired, started, scorerVars>>

-----------------------------------------------------------------------------
(* The server: handlers serving requests concurrently.                     *)

Init ==
    /\ StoreInit
    /\ receipt = ReceiptA
    /\ added = <<>>
    /\ points = 0
    /\ scored = FALSE

\* the steps of a request in progress on handler h
Step(h) ==
    \/ PutReject(h)
    \/ PutScore(h)
    \/ PutLock(h)
    \/ PutLocked(h)
    \/ PutWrite(h)
    \/ PutUnlock(h)
    \/ PutRespond(h)
    \/ GetRLock(h)
    \/ GetRead(h)
    \/ GetRUnlock(h)
    \/ GetRespond(h)

Next ==
    \/ \E h \in Handlers, payload \in Payloads : StartPut(h, payload)
    \/ \E h \in Handlers, id \in Ids : StartGet(h, id)
    \/ \E h \in Handlers : Step(h)

Spec == Init /\ [][Next]_vars

\* The server with the request contents narrowed to one malformed and one
\* well-formed body and one path identifier: the locking does not read them.
LockNext ==
    \/ \E h \in Handlers : StartPut(h, Malformed)
    \/ \E h \in Handlers : StartPut(h, [ok |-> TRUE, receipt |-> ReceiptA])
    \/ \E h \in Handlers : StartGet(h, 1)
    \/ \E h \in Handlers : Step(h)

\* the Go scheduler runs every runnable goroutine, and a goroutine blocked
\* in Lock or RLock is woken when the lock is released
FairSpec == Init /\ [][LockNext]_vars /\ WF_vars(\E h \in Handlers : Step(h))

\* a receipt that decodes, with a total and an item price that are no numbers
ReceiptC ==
    [retailer |-> <<"T", "a", "r", "g", "e", "t">>,
     purchaseDate |-> <<"2", "0", "2", "2", "-", "0", "1", "-", "0", "2">>,
     purchaseTime |-> <<"1", "3", ":", "0", "1">>,
     items |-> << [shortDescription |-> <<" ", "a", "b", "c", " ">>,
                   price |-> <<"x">>] >>,
     total |-> <<"a", "b", "c">>]

\* The server receiving bodies that do not decode and bodies that decode
\* into a receipt with unparseable amounts.
LenientNext ==
    \/ \E h \in Handlers : StartPut(h, Malformed)
    \/ \E h \in Handlers : StartPut(h, [ok |-> TRUE, receipt |-> ReceiptC])
    \/ \E h \in Handlers, id \in Ids : StartGet(h, id)
    \/ \E h \in Handlers : Step(h)

LenientSpec == Init /\ [][LenientNext]_vars

-----------------------------------------------------------------------------
(* Properties of the store and the handlers.                               *)

Done(h) == pc[h] = "done"

InProgress(h) == pc[h] \notin {"new", "done"}

DoneGet(h) == Done(h) /\ req[h].op = "get"

DonePut(h) == Done(h) /\ req[h].op = "put"

\* the 200 response that carries the points p
PointsOk(p) == [status |-> 200, kind |-> "points", id |-> NoId, points |-> p]

Retrievable(id) == PointsResponse(MapLookup(receipts, id))

\* C2: any two processReceipt responses carry distinct identifiers, and
\* every identifier returned is retrievable with the score of its own call.
DistinctRetrievable ==
    /\ \A i, j \in DOMAIN returned : i # j => returned[i].id # returned[j].id
    /\ \A i \in DOMAIN returned :
          Retrievable(returned[i].id) = PointsOk(calculatePoints(returned[i].receipt))

\* C2 witness: two puts of the same receipt (identical scores) have both
\* answered.
TwoPutsSameScore ==
    /\ Len(returned) = 2
    /\ returned[1].receipt = returned[2].receipt
    /\ \A h \in Handlers : DonePut(h)

\* C3: an identifier present in store.receipts stays present with the same
\* score in every later state; the store changes only by a put adding one
\* identifier that was absent.
EntriesNeverChange ==
    [][ /\ \A id \in DOMAIN receipts :
              id \in DOMAIN receipts' /\ receipts'[id] = receipts[id]
        /\ \A h \in Handlers :
              (pc[h] = "write" /\ pc'[h] = "unlock") =>
                  /\ local[h].id \notin DOMAIN receipts
                  /\ DOMAIN receipts' = DOMAIN receipts \cup {local[h].id}
        /\ (\A h \in Handlers : ~(pc[h] = "write" /\ pc'[h] = "unlock")) =>
              receipts' = receipts ]_vars

\* C3 witness: a second put writes while an earlier entry is in the store.
SecondEntryWritten ==
    \E h \in Handlers :
        /\ pc[h] = "unlock"
        /\ Cardinality(DOMAIN receipts) = 2

\* C4: a getPoints on an identifier that no processReceipt has drawn answers
\* 404 and no score.
UnissuedNotFound ==
    \A h \in Handlers :
        (DoneGet(h) /\ req[h].id \notin issued) =>
            resp[h] = [status |-> 404, kind |-> "error", id |-> NoId, points |-> 0]

\* C4 witness: a get on a never-issued identifier has answered while the
\* store holds another receipt.
UnissuedAsked ==
    \E h \in Handlers :
        DoneGet(h) /\ req[h].id \notin issued /\ receipts # <<>>

InWrite(h) == pc[h] \in {"write", "unlock"}

InRead(h) == pc[h] \in {"read", "runlock"}

\* C5: at most one processReceipt is between Lock and Unlock, and while one
\* is, no getPoints is between RLock and RUnlock.
WriterExcludes ==
    \A h \in Handlers :
        InWrite(h) => \A g \in Handlers \ {h} : ~InWrite(g) /\ ~InRead(g)

\* C5 witness: a writer is in its write section while another handler
\* waits at RLock or at Lock.
WriterHoldsOthersWait ==
    \E h, g \in Handlers : InWrite(h) /\ pc[g] \in {"rlock", "lock"}

\* C6: a processReceipt whose payload does not decode answers 400 in its
\* next step, draws no identifier and leaves store.receipts as it was.
MalformedRejected ==
    [][ \A h \in Handlers :
            (pc[h] = "decode" /\ ~req[h].payload.ok /\ pc'[h] # "decode") =>
                /\ pc'[h] = "done"
                /\ resp'[h].status = 400
                /\ local'[h].id = NoId
                /\ issued' = issued
                /\ receipts' = receipts ]_vars

\* C6 witness: a malformed put has been answered while the store holds a
\* receipt.
MalformedAnswered ==
    \E h \in Handlers :
        DonePut(h) /\ ~req[h].payload.ok /\ resp[h].status = 400 /\ receipts # <<>>

\* no request is in progress
Quiet == \A h \in Handlers : ~InProgress(h)

\* each request acquires store.io at most once and holds nothing once done
LockDiscipline ==
    \A h \in Handlers :
        /\ acquired[h] <= 1
        /\ Done(h) => (wowner # h /\ h \notin readers)

\* the request on h can take its next step: only Lock and RLock can block
Runnable(h) ==
    CASE pc[h] = "lock" -> CanLock(wowner)
      [] pc[h] = "lockwait" -> ReadersGone(readers)
      [] pc[h] = "rlock" -> CanRLock(wowner)
      [] OTHER -> InProgress(h)

\* Runnable is the enabling condition of Step
RunnableIsEnabled == \A h \in Handlers : Runnable(h) <=> ENABLED Step(h)

\* some request in progress can take a step
NoStuck == Quiet \/ \E h \in Handlers : Runnable(h)

\* C10: every request acquires the store lock at most once and releases
\* it, no state with requests in progress is stuck, and under fair
\* scheduling every started request completes.
AlwaysCompletes ==
    /\ []LockDiscipline
    /\ []NoStuck
    /\ \A h \in Handlers : InProgress(h) ~> Done(h)

\* C10 witness: every request of the run has completed, a put and a get
\* among them, each having acquired the lock.
AllCompleted ==
    /\ \A h \in Handlers : Done(h)
    /\ \E h, g \in Handlers :
          DonePut(h) /\ acquired[h] = 1 /\ DoneGet(g) /\ acquired[g] = 1

-----------------------------------------------------------------------------
(* Properties of the scorer.                                               *)

\* C7: every amount calculatePoints adds is non-negative and so is the
\* score it returns, for every receipt, those with negative prices included.
ScoreNonNegative ==
    scored => (points >= 0 /\ \A i \in DOMAIN added : added[i] >= 0)

\* the length of s without its leading and trailing white space: the
\* positions that have a non-space character at or before them and one at
\* or after them
TrimmedLen(s) ==
    Cardinality({i \in 1..Len(s) :
                    /\ \E j \in 1..i : s[j] \notin WhiteSpace
                    /\ \E k \in i..Len(s) : s[k] \notin WhiteSpace})

\* n is ceil(price * 0.2): the least integer with 5 * n >= price
IsCeilFifth(n, price) ==
    LET x == ParseFloat(price)
    IN  /\ 5 * n * Pow10(x.frac) >= x.mant
        /\ 5 * (n - 1) * Pow10(x.frac) < x.mant

\* the amount calculatePoints added for the i-th item of the scored receipt
AddedForItem(i) == added[4 + i]

\* C8 as claimed: an item earns ceil(price * 0.2) exactly when its trimmed
\* description has a length that is a positive multiple of 3; an empty
\* trimmed description earns 0.
DescrRulePositiveOnly ==
    scored =>
        \A i \in DOMAIN receipt.items :
            IF /\ TrimmedLen(receipt.items[i].shortDescription) > 0
               /\ TrimmedLen(receipt.items[i].shortDescription) % 3 = 0
            THEN IsCeilFifth(AddedForItem(i), receipt.items[i].price)
            ELSE AddedForItem(i) = 0

\* C8: an item earns ceil(price * 0.2) exactly when the length of its
\* trimmed description is a multiple of 3, the length 0 of an empty
\* trimmed description included; any other item earns 0.
DescrRule ==
    scored =>
        \A i \in DOMAIN receipt.items :
            IF TrimmedLen(receipt.items[i].shortDescription) % 3 = 0
            THEN IsCeilFifth(AddedForItem(i), receipt.items[i].price)
            ELSE AddedForItem(i) = 0

\* C8 witness: a scored receipt with an item whose description is white
\* space only and that earned points, beside an item of trimmed length 3.
EmptyDescrEarned ==
    /\ scored
    /\ \E i, j \in DOMAIN receipt.items :
          /\ receipt.items[i].shortDescription # <<>>
          /\ TrimmedLen(receipt.items[i].shortDescription) = 0
          /\ AddedForItem(i) > 0
          /\ TrimmedLen(receipt.items[j].shortDescription) = 3
          /\ AddedForItem(j) > 0

\* what rules 2 and 3 added for the scored receipt
RoundAndQuarter == <<added[2], added[3]>>

\* C9 as claimed: "100.00" earns both bonuses, "100.10" neither, "100.25"
\* the quarter bonus only, and "100.50" both.
RoundQuarterAsClaimed ==
    scored =>
        /\ receipt.total = <<"1", "0", "0", ".", "0", "0">> => RoundAndQuarter = <<50, 25>>
        /\ receipt.total = <<"1", "0", "0", ".", "1", "0">> => RoundAndQuarter = <<0, 0>>
        /\ receipt.total = <<"1", "0", "0", ".", "2", "5">> => RoundAndQuarter = <<0, 25>>
        /\ receipt.total = <<"1", "0", "0", ".", "5", "0">> => RoundAndQuarter = <<50, 25>>

\* C9: whatever the other fields, "100.00" earns both bonuses, "100.10"
\* neither, and "100.25" and "100.50" the quarter bonus only.
RoundQuarterRule ==
    scored =>
        /\ receipt.total = <<"1", "0", "0", ".", "0", "0">> => RoundAndQuarter = <<50, 25>>
        /\ receipt.total = <<"1", "0", "0", ".", "1", "0">> => RoundAndQuarter = <<0, 0>>
        /\ receipt.total = <<"1", "0", "0", ".", "2", "5">> => RoundAndQuarter = <<0, 25>>
        /\ receipt.total = <<"1", "0", "0", ".", "5", "0">> => RoundAndQuarter = <<0, 25>>

\* C9 witness: a receipt with total "100.50" has been scored.
HalfDollarScored ==
    scored /\ receipt.total = <<"1", "0", "0", ".", "5", "0">>

\* the minute of the day a text of the form HH:MM writes, or -1 for any
\* other text
WrittenMinute(s) ==
    IF /\ Len(s) = 5
       /\ s[3] = ":"
       /\ \A i \in {1, 2, 4, 5} : s[i] \in Digits
    THEN 600 * DigitVal(s[1]) + 60 * DigitVal(s[2])
           + 10 * DigitVal(s[4]) + DigitVal(s[5])
    ELSE -1

\* the amount rule 7 added for the scored receipt
AddedForAfternoon == added[Len(added)]

\* C11: calculatePoints adds 10 for the purchase time exactly when it is
\* strictly after 14:00 and strictly before 16:00; 14:00 and 16:00
\* themselves earn 0.
AfternoonRule ==
    scored =>
        AddedForAfternoon =
            (IF /\ WrittenMinute(receipt.purchaseTime) > 14 * 60
                /\ WrittenMinute(receipt.purchaseTime) < 16 * 60
             THEN 10 ELSE 0)

\* C11 witness: a receipt bought at 14:00 sharp has been scored without
\* the bonus.
TwoOClockScored ==
    /\ scored
    /\ receipt.purchaseTime = <<"1", "4", ":", "0", "0">>
    /\ AddedForAfternoon = 0

RECURSIVE SumFirst(_, _)
\* the sum of the first n amounts of s
SumFirst(s, n) == IF n = 0 THEN 0 ELSE SumFirst(s, n - 1) + s[n]

\* the items of the scored receipt in the opposite order
ReversedItems ==
    [i \in 1..Len(receipt.items) |-> receipt.items[Len(receipt.items) + 1 - i]]

\* C12: the score is the sum of the amounts of the seven rules (one amount
\* for rules 1 to 4, 6 and 7, one for each item for rule 5), the pair rule
\* gives 5 for every two items, the score does not depend on the order of
\* the items, and the example receipt ("Target", "35.35", two items of
\* which one qualifies with price "12.25", day 1, "13:01") scores
\* 6+0+0+5+3+6+0 = 20.
SumOfRules ==
    scored =>
        /\ Len(added) = 6 + Len(receipt.items)
        /\ points = SumFirst(added, Len(added))
        /\ added[1] = (IF receipt.retailer = <<"T", "a", "r", "g", "e", "t">> THEN 6 ELSE 3)
        /\ added[4] = 5 * (Len(receipt.items) \div 2)
        /\ points = calculatePoints([receipt EXCEPT !.items = ReversedItems])
        /\ receipt = ReceiptA =>
              (added = <<6, 0, 0, 5, 3, 0, 6, 0>> /\ points = 20)

\* C12 witness: the example receipt has been scored with 20 points.
ExampleScored == scored /\ receipt = ReceiptA /\ points = 20

\* C13: no step of a getPoints, from its dispatch to its response and
\* whether it finds the identifier or not, changes store.receipts.
GetLeavesStore ==
    [][ \A h \in Handlers :
            (req'[h].op = "get" /\ pc'[h] # pc[h]) => receipts' = receipts ]_vars

\* C13 witness: a get has answered 200 for an identifier the store holds.
GetAnsweredFromStore ==
    \E h \in Handlers :
        DoneGet(h) /\ resp[h].status = 200 /\ req[h].id \in DOMAIN receipts

NoDigit(s) == \A i \in 1..Len(s) : s[i] \notin Digits

\* C15: a receipt that decodes is never rejected for its field contents:
\* the put answers 200 with an identifier no other put got; a total that
\* does not parse earns the round-dollar 50 and the quarter 25, an item
\* price that does not parse adds 0, and the score stored for the receipt
\* with retailer "Target", such a total and such a price is 6 + 50 + 25.
UnparseableScoredAsZero ==
    \A h \in Handlers :
        (DonePut(h) /\ req[h].payload.ok) =>
            /\ resp[h].status = 200
            /\ resp[h].kind = "id"
            /\ resp[h].id \in issued
            /\ \A g \in Handlers \ {h} : DonePut(g) => resp[g].id # resp[h].id
            /\ NoDigit(req[h].payload.receipt.total) =>
                  /\ RoundDollarPoints(req[h].payload.receipt) = 50
                  /\ QuarterPoints(req[h].payload.receipt) = 25
            /\ \A i \in DOMAIN req[h].payload.receipt.items :
                  NoDigit(req[h].payload.receipt.items[i].price) =>
                      ItemPoints(req[h].payload.receipt.items[i]) = 0
            /\ req[h].payload.receipt = ReceiptC =>
                  Retrievable(resp[h].id) = PointsOk(6 + 50 + 25)

\* C15 witness: the receipt with the unparseable total and price has been
\* answered and its score of 81 is in the store.
UnparseableStored ==
    \E h \in Handlers :
        /\ DonePut(h)
        /\ req[h].payload.receipt = ReceiptC
        /\ resp[h].status = 200
        /\ receipts[resp[h].id] = 81

\* the dates of the model that are no calendar date in the form
\* YYYY-MM-DD: February 30, and a month written with one digit
NoCalendarDates ==
    { <<"2", "0", "2", "2", "-", "0", "2", "-", "3", "0">>,
      <<"2", "0", "2", "2", "-", "1", "-", "0", "2">> }

\* the amount rule 6 added for the scored receipt
AddedForOddDay == added[Len(added) - 1]

\* C16: a purchase date that does not parse, the impossible "2022-02-30"
\* with its even day number included, is scored as the zero date, whose
\* day of the month is 1, and earns the 6 points of an odd day; a purchase
\* time that does not parse is scored as the zero time, 00:00, and earns
\* no afternoon bonus.
UnparseableDateTime ==
    scored =>
        /\ receipt.purchaseDate \in NoCalendarDates =>
              /\ ParseDate(receipt.purchaseDate).day = 1
              /\ AddedForOddDay = 6
        /\ WrittenMinute(receipt.purchaseTime) = -1 =>
              /\ ParseClock(receipt.purchaseTime).minute = 0
              /\ AddedForAfternoon = 0

\* C16 witness: a receipt dated "2022-02-30" has been scored with the
\* odd-day bonus.
ImpossibleDateScored ==
    /\ scored
    /\ receipt.purchaseDate = <<"2", "0", "2", "2", "-", "0", "2", "-", "3", "0">>
    /\ AddedForOddDay = 6

====
